---- MODULE Spec2Model ----
(***************************************************************************)
(* The embedded key-value store of 20-db: an order-4 B-tree (btree.go)     *)
(* behind KDB.Put / KDB.Get (db.go), made durable by a write-ahead log of  *)
(* JSON lines (wal.go).                                                    *)
(*                                                                         *)
(* Go pointers to nodes are addresses into `heap` (0 is nil); a *string is *)
(* <<>> (nil) or <<s>>; a string key is the sequence of its runes, which   *)
(* is what `for _, char := range key` iterates over.                       *)
(***************************************************************************)
EXTENDS Integers, Sequences, FiniteSets, TLC

VARIABLES
    head,      \* KDB.head: address of the root node, NilNode when empty
    heap,      \* the Node objects allocated so far, by address
    Size,      \* KDB.Size
    wal,       \* KDB.wal: TRUE when a WAL is attached, FALSE for nil
    file,      \* the content of the file at WAL.filePath, as written chunks
    fileOpen,  \* whether the handle WAL.file is open
    walSeq,    \* WAL.seq
    pc,        \* where the caller is: "idle", or inside Put at "write", "sync", "apply"
    cur,       \* the arguments of the Put in progress
    ret,       \* what the last finished operation returned
    acked,     \* history: the Put calls that returned true, each with its key, its
               \* value and its rank among those of the same hash
    aborted,   \* history: the keys of the Put calls that returned false because Log failed
    logged,    \* history: the records for which WAL.Log returned nil
    faults,    \* history: how many write or sync failures the file system has produced
    logs,      \* history: how many times WAL.Log was called
    opens,     \* history: how many times the store was reopened
    ckpt       \* history: whether a Checkpoint has succeeded, and since the last one
               \* that did (or since the start) the keys of the Put calls that
               \* returned true and how many times WAL.Log returned nil

treeVars == <<head, heap, Size>>

walVars == <<file, fileOpen, walSeq>>

histVars == <<acked, aborted, logged, faults, logs, opens, ckpt>>

vars == <<head, heap, Size, wal, file, fileOpen, walSeq, pc, cur, ret,
          acked, aborted, logged, faults, logs, opens, ckpt>>

-----------------------------------------------------------------------------
(* Bounds of the model *)

\* how many of the candidate keys the callers of the in-memory store draw from
\* when they put every key once
NumKeys == 12

\* how many of them they draw from when a Put carries one of two values
NumDupKeys == 5

\* Put is not called on an in-memory store that holds this many entries
MaxSize == 8

\* how many times Put on a WAL-backed store gets as far as calling WAL.Log
MaxLogs == 2

\* how many writes or syncs of the WAL file may fail
MaxFaults == 1

\* how many times the store is closed and opened again
MaxOpens == 1

\* how many times the callers of the WAL alone call WAL.Log
MaxWalLogs == 3

\* how many records a WAL file that this store did not write holds
MaxRecords == 3

\* how many times the goroutines together get as far as calling WAL.Log
MaxConcLogs == 3

\* the longest key, in runes, that HashStringToInt is followed over
MaxHashLen == 12

-----------------------------------------------------------------------------
(* Values of the Go types *)

NilNode == 0

NilStr == <<>>

Ref(s) == <<s>>

Deref(p) == p[1]

\* the zero value of Node
ZeroNode ==
    [cp1 |-> NilNode, key1 |-> 0, rp1 |-> NilStr,
     cp2 |-> NilNode, key2 |-> 0, rp2 |-> NilStr,
     cp3 |-> NilNode, key3 |-> 0, rp3 |-> NilStr,
     cp4 |-> NilNode, size |-> 0]

\* the zero value of splitResult
NoSplit ==
    [promoted |-> FALSE, promotedKey |-> 0, promotedVal |-> NilStr,
     newRight |-> NilNode]

\* &Node{key1: key, rp1: val, size: 1}
LeafNode(key, val) == [ZeroNode EXCEPT !.key1 = key, !.rp1 = val, !.size = 1]

-----------------------------------------------------------------------------
(* hash.go *)

RECURSIVE HashFrom(_, _)
HashFrom(hash, key) ==
    IF key = <<>> THEN hash
    ELSE HashFrom((hash * 32 + hash) + Head(key), Tail(key))

\* The keys of the model have at most three runes below 128, for which the
\* fold stays below 2^31 and the int arithmetic of Go never wraps.
HashStringToInt(key) == HashFrom(5381, key)

\* An int of Go has 64 bits on the 64-bit targets. A value of 64 bits is held
\* as four words of 16 bits, the lowest first, in two's complement.
Base == 2^16

\* the 64 bits of the int n, for 0 <= n < 2^31
Word64(n) == <<n % Base, n \div Base, 0, 0>>

\* a slip: the bits that leave a word of 16 bits are lost
Shl5NoCarry(w) == [i \in 1..4 |-> (w[i] * 32) % Base]

\* hash << 5: the bits shifted past bit 63 are dropped
Shl5(w) ==
    [i \in 1..4 |->
        ((w[i] * 32) % Base) + (IF i = 1 THEN 0 ELSE w[i - 1] \div 2^11)]

\* the carry of a + b into word i
RECURSIVE CarryInto(_, _, _)
CarryInto(a, b, i) ==
    IF i = 1 THEN 0
    ELSE (a[i - 1] + b[i - 1] + CarryInto(a, b, i - 1)) \div Base

\* a + b on int: the carry out of bit 63 is dropped
Add64(a, b) == [i \in 1..4 |-> (a[i] + b[i] + CarryInto(a, b, i)) % Base]

\* hash = ((hash << 5) + hash) + int(char)
hashStep(hash, char) == Add64(Add64(Shl5(hash), hash), Word64(char))

-----------------------------------------------------------------------------
(* btree.go *)

\* a slip: the key goes into the first free slot, whatever the keys before it
insertKeyIntoNodeAtEnd(node, key, val) ==
    IF node.size = 0 THEN
        [node EXCEPT !.key1 = key, !.rp1 = val, !.size = 1]
    ELSE IF node.size = 1 THEN
        [node EXCEPT !.key2 = key, !.rp2 = val, !.size = 2]
    ELSE IF node.size = 2 THEN
        [node EXCEPT !.key3 = key, !.rp3 = val, !.size = 3]
    ELSE node

insertKeyIntoNode(node, key, val) ==
    IF node.size = 0 THEN
        [node EXCEPT !.key1 = key, !.rp1 = val, !.size = 1]
    ELSE IF node.size = 1 THEN
        IF key < node.key1 THEN
            [node EXCEPT !.key2 = node.key1, !.rp2 = node.rp1,
                         !.key1 = key, !.rp1 = val, !.size = 2]
        ELSE
            [node EXCEPT !.key2 = key, !.rp2 = val, !.size = 2]
    ELSE IF node.size = 2 THEN
        IF key < node.key1 THEN
            [node EXCEPT !.key3 = node.key2, !.rp3 = node.rp2,
                         !.key2 = node.key1, !.rp2 = node.rp1,
                         !.key1 = key, !.rp1 = val, !.size = 3]
        ELSE IF key < node.key2 THEN
            [node EXCEPT !.key3 = node.key2, !.rp3 = node.rp2,
                         !.key2 = key, !.rp2 = val, !.size = 3]
        ELSE
            [node EXCEPT !.key3 = key, !.rp3 = val, !.size = 3]
    ELSE node

isLeaf(node) ==
    /\ node.cp1 = NilNode
    /\ node.cp2 = NilNode
    /\ node.cp3 = NilNode
    /\ node.cp4 = NilNode

\* a slip: with two keys and the split in the child at index 1, the last child
\* is not moved to cp4
insertPromotedKeyNoShift(node, key, val, newRight, afterChildIdx) ==
    IF node.size = 1 THEN
        IF afterChildIdx = 0 THEN
            [node EXCEPT !.key2 = node.key1, !.rp2 = node.rp1,
                         !.key1 = key, !.rp1 = val,
                         !.cp3 = node.cp2, !.cp2 = newRight, !.size = 2]
        ELSE
            [node EXCEPT !.key2 = key, !.rp2 = val,
                         !.cp3 = newRight, !.size = 2]
    ELSE IF afterChildIdx = 0 THEN
        [node EXCEPT !.key3 = node.key2, !.rp3 = node.rp2,
                     !.key2 = node.key1, !.rp2 = node.rp1,
                     !.key1 = key, !.rp1 = val,
                     !.cp4 = node.cp3, !.cp3 = node.cp2, !.cp2 = newRight,
                     !.size = 3]
    ELSE IF afterChildIdx = 1 THEN
        [node EXCEPT !.key3 = node.key2, !.rp3 = node.rp2,
                     !.key2 = key, !.rp2 = val,
                     !.cp3 = newRight, !.size = 3]
    ELSE
        [node EXCEPT !.key3 = key, !.rp3 = val, !.cp4 = newRight, !.size = 3]

insertPromotedKey(node, key, val, newRight, afterChildIdx) ==
    IF node.size = 1 THEN
        IF afterChildIdx = 0 THEN
            [node EXCEPT !.key2 = node.key1, !.rp2 = node.rp1,
                         !.key1 = key, !.rp1 = val,
                         !.cp3 = node.cp2, !.cp2 = newRight, !.size = 2]
        ELSE
            [node EXCEPT !.key2 = key, !.rp2 = val,
                         !.cp3 = newRight, !.size = 2]
    ELSE IF afterChildIdx = 0 THEN
        [node EXCEPT !.key3 = node.key2, !.rp3 = node.rp2,
                     !.key2 = node.key1, !.rp2 = node.rp1,
                     !.key1 = key, !.rp1 = val,
                     !.cp4 = node.cp3, !.cp3 = node.cp2, !.cp2 = newRight,
                     !.size = 3]
    ELSE IF afterChildIdx = 1 THEN
        [node EXCEPT !.key3 = node.key2, !.rp3 = node.rp2,
                     !.key2 = key, !.rp2 = val,
                     !.cp4 = node.cp3, !.cp3 = newRight, !.size = 3]
    ELSE
        [node EXCEPT !.key3 = key, !.rp3 = val, !.cp4 = newRight, !.size = 3]

\* sort.Slice on fewer than 12 items is an insertion sort: an item moves left
\* past the items whose key is greater than its own.
RECURSIVE sortItems(_)
sortItems(items) ==
    IF Len(items) <= 1 THEN items
    ELSE
        LET front == sortItems(SubSeq(items, 1, Len(items) - 1))
            last  == items[Len(items)]
            keep  == Cardinality({i \in 1..Len(front) : ~(last.k < front[i].k)})
        IN  SubSeq(front, 1, keep) \o <<last>> \o SubSeq(front, keep + 1, Len(front))

\* a slip: the copy is left out, so newChild overwrites the child at idx
shiftChildrenOverwrite(children, idx, newChild) ==
    [i \in 1..5 |-> IF i - 1 = idx THEN newChild ELSE children[i]]

\* copy(children[idx+1:], children[idx:]); children[idx] = newChild
\* on the five slots of children, which the model indexes from 1.
shiftChildren(children, idx, newChild) ==
    [i \in 1..5 |->
        IF i - 1 < idx THEN children[i]
        ELSE IF i - 1 = idx THEN newChild
        ELSE children[i - 1]]

\* a slip: the third of the sorted items is promoted and the second goes to
\* the sibling
splitSortedThird(h, n, items, children, internal) ==
    LET left    == [h[n] EXCEPT !.key1 = items[1].k, !.rp1 = items[1].v,
                                !.key2 = 0, !.rp2 = NilStr,
                                !.key3 = 0, !.rp3 = NilStr, !.size = 1,
                                !.cp1 = IF internal THEN children[1] ELSE NilNode,
                                !.cp2 = IF internal THEN children[2] ELSE NilNode,
                                !.cp3 = NilNode, !.cp4 = NilNode]
        sibling == [ZeroNode EXCEPT !.key1 = items[2].k, !.rp1 = items[2].v,
                                    !.key2 = items[4].k, !.rp2 = items[4].v,
                                    !.size = 2,
                                    !.cp1 = IF internal THEN children[3] ELSE NilNode,
                                    !.cp2 = IF internal THEN children[4] ELSE NilNode,
                                    !.cp3 = IF internal THEN children[5] ELSE NilNode]
    IN  [heap |-> Append([h EXCEPT ![n] = left], sibling),
         res  |-> [promoted |-> TRUE, promotedKey |-> items[3].k,
                   promotedVal |-> items[3].v, newRight |-> Len(h) + 1]]

\* splitNode once the items are sorted; children is the five slots after the
\* copy when the node is internal, and is not read when it is a leaf.
splitSorted(h, n, items, children, internal) ==
    LET left    == [h[n] EXCEPT !.key1 = items[1].k, !.rp1 = items[1].v,
                                !.key2 = 0, !.rp2 = NilStr,
                                !.key3 = 0, !.rp3 = NilStr, !.size = 1,
                                !.cp1 = IF internal THEN children[1] ELSE NilNode,
                                !.cp2 = IF internal THEN children[2] ELSE NilNode,
                                !.cp3 = NilNode, !.cp4 = NilNode]
        sibling == [ZeroNode EXCEPT !.key1 = items[3].k, !.rp1 = items[3].v,
                                    !.key2 = items[4].k, !.rp2 = items[4].v,
                                    !.size = 2,
                                    !.cp1 = IF internal THEN children[3] ELSE NilNode,
                                    !.cp2 = IF internal THEN children[4] ELSE NilNode,
                                    !.cp3 = IF internal THEN children[5] ELSE NilNode]
    IN  [heap |-> Append([h EXCEPT ![n] = left], sibling),
         res  |-> [promoted |-> TRUE, promotedKey |-> items[2].k,
                   promotedVal |-> items[2].v, newRight |-> Len(h) + 1]]

\* a slip: idx is *afterChildIdx, so newChild goes before the child that split
splitNodeBeforeChild(h, n, newKey, newVal, newChild, afterChildIdx) ==
    splitSorted(h, n,
        sortItems(<<[k |-> h[n].key1, v |-> h[n].rp1],
                    [k |-> h[n].key2, v |-> h[n].rp2],
                    [k |-> h[n].key3, v |-> h[n].rp3],
                    [k |-> newKey, v |-> newVal]>>),
        IF afterChildIdx # <<>>
        THEN shiftChildren(<<h[n].cp1, h[n].cp2, h[n].cp3, h[n].cp4, NilNode>>,
                           afterChildIdx[1], newChild)
        ELSE <<>>,
        afterChildIdx # <<>>)

\* afterChildIdx is <<>> for a nil *int and <<i>> for a pointer to i.
splitNode(h, n, newKey, newVal, newChild, afterChildIdx) ==
    splitSorted(h, n,
        sortItems(<<[k |-> h[n].key1, v |-> h[n].rp1],
                    [k |-> h[n].key2, v |-> h[n].rp2],
                    [k |-> h[n].key3, v |-> h[n].rp3],
                    [k |-> newKey, v |-> newVal]>>),
        IF afterChildIdx # <<>>
        THEN shiftChildren(<<h[n].cp1, h[n].cp2, h[n].cp3, h[n].cp4, NilNode>>,
                           afterChildIdx[1] + 1, newChild)
        ELSE <<>>,
        afterChildIdx # <<>>)

\* the switch of insertKey: the index of the child slot the key descends into
childIdxOf(node, key) ==
    IF key < node.key1 THEN 0
    ELSE IF node.size = 1 \/ key < node.key2 THEN 1
    ELSE IF node.size = 2 \/ key < node.key3 THEN 2
    ELSE 3

childAt(node, idx) ==
    IF idx = 0 THEN node.cp1
    ELSE IF idx = 1 THEN node.cp2
    ELSE IF idx = 2 THEN node.cp3
    ELSE node.cp4

setChildAt(node, idx, c) ==
    IF idx = 0 THEN [node EXCEPT !.cp1 = c]
    ELSE IF idx = 1 THEN [node EXCEPT !.cp2 = c]
    ELSE IF idx = 2 THEN [node EXCEPT !.cp3 = c]
    ELSE [node EXCEPT !.cp4 = c]

\* a slip: the key that caused the split is counted once more
returnSplitCounted(s, sz) == [heap |-> s.heap, Size |-> sz + 1, res |-> s.res]

\* what insertKey returns when it returns the result s of splitNode
returnSplit(s, sz) == [heap |-> s.heap, Size |-> sz, res |-> s.res]

\* a slip: a key promoted by a child is not taken into the node; a new node
\* holding it is hung in the place of the child
afterChildHangs(n, childIdx, r) ==
    IF ~r.res.promoted THEN
        [heap |-> r.heap, Size |-> r.Size, res |-> NoSplit]
    ELSE
        [heap |-> Append([r.heap EXCEPT ![n] =
                             setChildAt(r.heap[n], childIdx, Len(r.heap) + 1)],
                         [ZeroNode EXCEPT !.key1 = r.res.promotedKey,
                                          !.rp1 = r.res.promotedVal,
                                          !.cp1 = childAt(r.heap[n], childIdx),
                                          !.cp2 = r.res.newRight,
                                          !.size = 1]),
         Size |-> r.Size, res |-> NoSplit]

\* insertKey after the recursive call on the child at childIdx returned r
afterChild(n, childIdx, r) ==
    IF ~r.res.promoted THEN
        [heap |-> r.heap, Size |-> r.Size, res |-> NoSplit]
    ELSE IF r.heap[n].size < 3 THEN
        [heap |-> [r.heap EXCEPT ![n] =
                      insertPromotedKey(r.heap[n], r.res.promotedKey,
                          r.res.promotedVal, r.res.newRight, childIdx)],
         Size |-> r.Size, res |-> NoSplit]
    ELSE
        returnSplit(splitNode(r.heap, n, r.res.promotedKey, r.res.promotedVal,
                              r.res.newRight, <<childIdx>>),
                    r.Size)

\* insertKey on the node at address n; the result carries the heap and the
\* Size it leaves, and the splitResult it returns.
RECURSIVE insertKey(_, _, _, _, _)
insertKey(h, sz, n, key, val) ==
    IF isLeaf(h[n]) THEN
        IF h[n].size < 3 THEN
            [heap |-> [h EXCEPT ![n] = insertKeyIntoNode(h[n], key, val)],
             Size |-> sz + 1, res |-> NoSplit]
        ELSE
            returnSplit(splitNode(h, n, key, val, NilNode, <<>>), sz + 1)
    ELSE IF childAt(h[n], childIdxOf(h[n], key)) = NilNode THEN
        [heap |-> Append([h EXCEPT ![n] =
                             setChildAt(h[n], childIdxOf(h[n], key), Len(h) + 1)],
                         LeafNode(key, val)),
         Size |-> sz + 1, res |-> NoSplit]
    ELSE
        afterChild(n, childIdxOf(h[n], key),
                   insertKey(h, sz, childAt(h[n], childIdxOf(h[n], key)), key, val))

\* a slip: the children of the new root are exchanged
afterHeadExchanged(t, result) ==
    IF result.res.promoted THEN
        [head |-> Len(result.heap) + 1,
         heap |-> Append(result.heap,
                     [ZeroNode EXCEPT !.key1 = result.res.promotedKey,
                                      !.rp1 = result.res.promotedVal,
                                      !.cp1 = result.res.newRight,
                                      !.cp2 = t.head,
                                      !.size = 1]),
         Size |-> result.Size]
    ELSE
        [head |-> t.head, heap |-> result.heap, Size |-> result.Size]

\* KDB.insert after insertKey on the head returned result
afterHead(t, result) ==
    IF result.res.promoted THEN
        [head |-> Len(result.heap) + 1,
         heap |-> Append(result.heap,
                     [ZeroNode EXCEPT !.key1 = result.res.promotedKey,
                                      !.rp1 = result.res.promotedVal,
                                      !.cp1 = t.head,
                                      !.cp2 = result.res.newRight,
                                      !.size = 1]),
         Size |-> result.Size]
    ELSE
        [head |-> t.head, heap |-> result.heap, Size |-> result.Size]

\* a slip: both child links of the new root are set to the old head
afterHeadTwice(t, result) ==
    IF result.res.promoted THEN
        [head |-> Len(result.heap) + 1,
         heap |-> Append(result.heap,
                     [ZeroNode EXCEPT !.key1 = result.res.promotedKey,
                                      !.rp1 = result.res.promotedVal,
                                      !.cp1 = t.head,
                                      !.cp2 = t.head,
                                      !.size = 1]),
         Size |-> result.Size]
    ELSE
        [head |-> t.head, heap |-> result.heap, Size |-> result.Size]

\* KDB.insert with that slip
insertTwice(t, key, val) ==
    IF t.head = NilNode THEN
        [head |-> Len(t.heap) + 1,
         heap |-> Append(t.heap, LeafNode(key, val)),
         Size |-> t.Size + 1]
    ELSE
        afterHeadTwice(t, insertKey(t.heap, t.Size, t.head, key, val))

\* KDB.insert on the tree t = [head, heap, Size]
insert(t, key, val) ==
    IF t.head = NilNode THEN
        [head |-> Len(t.heap) + 1,
         heap |-> Append(t.heap, LeafNode(key, val)),
         Size |-> t.Size + 1]
    ELSE
        afterHead(t, insertKey(t.heap, t.Size, t.head, key, val))

-----------------------------------------------------------------------------
(* db.go: the lookups *)

\* a slip: the three keys are compared without a look at node.size
RECURSIVE searchKeyHashAnySlot(_, _, _)
searchKeyHashAnySlot(h, n, hash) ==
    IF n = NilNode THEN NilNode
    ELSE
        LET node == h[n] IN
        IF node.key1 = hash THEN n
        ELSE IF node.key2 = hash THEN n
        ELSE IF node.key3 = hash THEN n
        ELSE IF node.size >= 1 /\ hash < node.key1 THEN searchKeyHashAnySlot(h, node.cp1, hash)
        ELSE IF node.size >= 2 /\ hash < node.key2 THEN searchKeyHashAnySlot(h, node.cp2, hash)
        ELSE IF node.size >= 3 /\ hash < node.key3 THEN searchKeyHashAnySlot(h, node.cp3, hash)
        ELSE searchKeyHashAnySlot(h, node.cp4, hash)

\* KDB.searchKey from the node at address n: the address of the node found,
\* NilNode when there is none
RECURSIVE searchKeyHash(_, _, _)
searchKeyHash(h, n, hash) ==
    IF n = NilNode THEN NilNode
    ELSE
        LET node == h[n] IN
        IF node.size >= 1 /\ node.key1 = hash THEN n
        ELSE IF node.size >= 2 /\ node.key2 = hash THEN n
        ELSE IF node.size >= 3 /\ node.key3 = hash THEN n
        ELSE IF node.size >= 1 /\ hash < node.key1 THEN searchKeyHash(h, node.cp1, hash)
        ELSE IF node.size >= 2 /\ hash < node.key2 THEN searchKeyHash(h, node.cp2, hash)
        ELSE IF node.size >= 3 /\ hash < node.key3 THEN searchKeyHash(h, node.cp3, hash)
        ELSE searchKeyHash(h, node.cp4, hash)

searchKey(h, n, key) == searchKeyHash(h, n, HashStringToInt(key))

checkIsDuplicateKey(t, key) == searchKey(t.heap, t.head, key) # NilNode

NotFound == [value |-> "", found |-> FALSE]

Found(rp) == IF rp = NilStr THEN NotFound ELSE [value |-> Deref(rp), found |-> TRUE]

\* the loop of KDB.Get, from the node at address n
RECURSIVE GetFrom(_, _, _)
GetFrom(h, n, hash) ==
    IF n = NilNode THEN NotFound
    ELSE
        LET node == h[n] IN
        IF node.size >= 1 /\ node.key1 = hash THEN Found(node.rp1)
        ELSE IF node.size >= 2 /\ node.key2 = hash THEN Found(node.rp2)
        ELSE IF node.size >= 3 /\ node.key3 = hash THEN Found(node.rp3)
        ELSE IF hash < node.key1 THEN GetFrom(h, node.cp1, hash)
        ELSE IF node.size = 1 \/ hash < node.key2 THEN GetFrom(h, node.cp2, hash)
        ELSE IF node.size = 2 \/ hash < node.key3 THEN GetFrom(h, node.cp3, hash)
        ELSE GetFrom(h, node.cp4, hash)

\* KDB.Get on the tree t
GetIn(t, key) == GetFrom(t.heap, t.head, HashStringToInt(key))

\* the tree of the store
T == [head |-> head, heap |-> heap, Size |-> Size]

Get(key) == GetIn(T, key)

\* KDB.Put on a store whose wal is nil: the tree it leaves
PutNoWAL(t, key, val) ==
    IF checkIsDuplicateKey(t, key) THEN t
    ELSE insert(t, HashStringToInt(key), Ref(val))

-----------------------------------------------------------------------------
(* wal.go: the file *)

\* a Go string that holds the byte 0xff, which is not valid UTF-8
InvalidValue == "0xff"

\* the string of the one rune U+FFFD
ReplacedValue == "U+FFFD"

\* a Go string of 65536 bytes: the line of a record that holds it is longer
\* than the largest token a bufio.Scanner returns (bufio.MaxScanTokenSize)
LongValue == "64KiB"

\* what json.Unmarshal reads back from the bytes json.Marshal wrote for the
\* string s: Marshal writes the rune U+FFFD for each byte that is not valid
\* UTF-8, and escapes of the other bytes are undone by Unmarshal
jsonString(s) == IF s = InvalidValue THEN ReplacedValue ELSE s

(***************************************************************************)
(* Log writes the bytes of json.Marshal(op) followed by '\n' in one Write. *)
(* A Write that fails may have written any prefix of them, so the file is  *)
(* a sequence of chunks, each the part of one record that reached it:      *)
(*   "full"    the JSON object and the newline                             *)
(*   "data"    the whole JSON object, without the newline                  *)
(*   "prefix"  a proper, non-empty prefix of the JSON object               *)
(*   "long"    a proper prefix of the JSON object of a record that holds   *)
(*             LongValue, itself longer than the largest token             *)
(*   "rest"    what follows a "prefix", up to and with the newline: a      *)
(*             Write that the system cut short goes on with it             *)
(* The Timestamp of a record is not modelled: nothing reads it.            *)
(***************************************************************************)
Chunk(seq, operation, key, value, part) ==
    [Seq |-> seq, Operation |-> operation, Key |-> key,
     Value |-> jsonString(value), part |-> part]

\* what a Write that fails may leave of the record of this value
FaultParts(value) ==
    {"none", "prefix", "data"} \cup (IF value = LongValue THEN {"long"} ELSE {})

\* bufio.Scanner with ScanLines: the lines of the file, each the chunks up to
\* and including the one that carries the newline; bytes after the last
\* newline form a final line.
RECURSIVE LinesFrom(_, _)
LinesFrom(f, line) ==
    IF f = <<>> THEN (IF line = <<>> THEN <<>> ELSE <<line>>)
    ELSE IF Head(f).part \in {"full", "rest"}
         THEN <<Append(line, Head(f))>> \o LinesFrom(Tail(f), <<>>)
         ELSE LinesFrom(Tail(f), Append(line, Head(f)))

Lines(f) == LinesFrom(f, <<>>)

\* json.Unmarshal(line, &op) returns nil: the line is one whole JSON object.
\* A prefix of an object followed by anything, and two objects on one line,
\* are not JSON values.
Unmarshals(line) ==
    \/ Len(line) = 1 /\ line[1].part \in {"full", "data"}
    \/ /\ Len(line) = 2
       /\ line[1].part = "prefix" /\ line[2].part = "rest"
       /\ line[2] = [line[1] EXCEPT !.part = "rest"]

WALOperation(line) ==
    [Seq |-> line[1].Seq, Operation |-> line[1].Operation,
     Key |-> line[1].Key, Value |-> line[1].Value]

\* the line is longer than the largest token: Scan returns false there and
\* scanner.Err() is bufio.ErrTooLong
TooLong(line) ==
    \E i \in 1..Len(line) :
        line[i].Value = LongValue /\ line[i].part \in {"full", "data", "long"}

\* the lines scanner.Scan() returns before it returns false
RECURSIVE Scanned(_)
Scanned(lines) ==
    IF lines = <<>> \/ TooLong(Head(lines)) THEN <<>>
    ELSE <<Head(lines)>> \o Scanned(Tail(lines))

RECURSIVE lastSeqOf(_, _)
lastSeqOf(lines, lastSeq) ==
    IF lines = <<>> THEN lastSeq
    ELSE lastSeqOf(Tail(lines),
            IF Unmarshals(Head(lines)) /\ Head(lines)[1].Seq > lastSeq
            THEN Head(lines)[1].Seq ELSE lastSeq)

\* the loop ends when Scan returns false; scanner.Err() is not looked at
getLastSequence(f) == lastSeqOf(Scanned(Lines(f)), 0)

RECURSIVE recoverLines(_)
recoverLines(lines) ==
    IF lines = <<>> THEN <<>>
    ELSE (IF Unmarshals(Head(lines)) THEN <<WALOperation(Head(lines))>> ELSE <<>>)
         \o recoverLines(Tail(lines))

\* WAL.Recover on the file f returns an error: scanner.Err() is not nil
RecoverFails(f) == \E i \in 1..Len(Lines(f)) : TooLong(Lines(f)[i])

\* WAL.Recover on the file f: the operations it returns, nil with an error
Recover(f) ==
    IF RecoverFails(f) THEN <<>> ELSE recoverLines(Scanned(Lines(f)))

\* the loop of KDB.recoverFromWAL, run with db.wal set to nil
RECURSIVE replay(_, _)
replay(t, ops) ==
    IF ops = <<>> THEN t
    ELSE replay(IF Head(ops).Operation = "PUT"
                THEN PutNoWAL(t, Head(ops).Key, Head(ops).Value)
                ELSE t,
                Tail(ops))

EmptyTree == [head |-> NilNode, heap |-> <<>>, Size |-> 0]

\* KDB.Put inside recoverFromWAL, on the store s whose fields are the tree,
\* whether db.wal is set, the WAL file and w.seq; the handle is open and no
\* write fails
PutIn(s, key, val) ==
    IF checkIsDuplicateKey(s.tree, key) THEN s
    ELSE IF s.wal
    THEN [tree |-> insert(s.tree, HashStringToInt(key), Ref(val)),
          wal  |-> TRUE,
          file |-> Append(s.file, Chunk(s.seq + 1, "PUT", key, val, "full")),
          seq  |-> s.seq + 1]
    ELSE [s EXCEPT !.tree = insert(s.tree, HashStringToInt(key), Ref(val))]

\* a slip: the loop ends at the first operation that is not a PUT
RECURSIVE replayInStops(_, _)
replayInStops(s, ops) ==
    IF ops = <<>> \/ Head(ops).Operation # "PUT" THEN s
    ELSE replayInStops(PutIn(s, Head(ops).Key, Head(ops).Value), Tail(ops))

\* the loop of KDB.recoverFromWAL over the operations ops
RECURSIVE replayIn(_, _)
replayIn(s, ops) ==
    IF ops = <<>> THEN s
    ELSE replayIn(IF Head(ops).Operation = "PUT"
                  THEN PutIn(s, Head(ops).Key, Head(ops).Value)
                  ELSE s,
                  Tail(ops))

\* a slip: db.wal stays set during the replay
recoverFromWALAttached(s) == replayIn(s, Recover(s.file))

\* KDB.recoverFromWAL when Recover returns no error: db.wal is nil during the
\* loop and set again by the deferred function
recoverFromWAL(s) ==
    [replayIn([s EXCEPT !.wal = FALSE], Recover(s.file)) EXCEPT !.wal = s.wal]

\* the store newKDBWithWAL has after NewWAL on the file f
NewStore(f) ==
    [tree |-> EmptyTree, wal |-> TRUE, file |-> f, seq |-> getLastSequence(f)]

-----------------------------------------------------------------------------
(* The inputs of the callers *)

\* "a" .. "n": fourteen keys with fourteen hashes, in increasing order of hash
KeyPool ==
    <<<<97>>, <<98>>, <<99>>, <<100>>, <<101>>, <<102>>, <<103>>,
      <<104>>, <<105>>, <<106>>, <<107>>, <<108>>, <<109>>, <<110>>>>

TreeKeys == {KeyPool[i] : i \in 1..NumKeys}

MemKeys == {KeyPool[i] : i \in 1..NumDupKeys}

\* "a", and "aa" and "b@", which have the same hash
WalKeys == {<<97>>, <<97, 97>>, <<98, 64>>}

Values == {"v1", "v2"}

\* the values of the callers of the store that also call Checkpoint
CkptValues == {"v1", LongValue}

\* the operations of the records of a WAL file that this store did not write
ReplayOps == {"PUT", "DELETE", "MERGE"}

\* "a" and "b", the keys of the callers of the WAL alone
LogKeys == {<<97>>, <<98>>}

\* the values of the callers of the WAL alone
LogValues == {"v1", LongValue, InvalidValue}

-----------------------------------------------------------------------------
(* The operations *)

\* what an operation returned: for Put the pair (ok, value), for the others
\* whether the error is nil
Returned(op, ok, value) == [op |-> op, ok |-> ok, value |-> value]

NoCall == [key |-> <<>>, val |-> ""]

\* the tree of the store becomes t
SetTree(t) ==
    /\ head' = t.head
    /\ heap' = t.heap
    /\ Size' = t.Size

\* the store becomes s
SetStore(s) ==
    /\ SetTree(s.tree)
    /\ wal' = s.wal
    /\ file' = s.file
    /\ walSeq' = s.seq

\* a slip: the record is logged before the duplicate check
PutRejectsAfterLog(key, val) ==
    /\ ret' = Returned("Put", FALSE, val)
    /\ walSeq' = walSeq + 1
    /\ file' = Append(file, Chunk(walSeq + 1, "PUT", key, val, "full"))
    /\ UNCHANGED <<treeVars, wal, fileOpen, pc, cur, histVars>>

\* KDB.Put when the key is a duplicate
PutRejects(key, val) ==
    /\ ret' = Returned("Put", FALSE, val)
    /\ UNCHANGED <<treeVars, wal, walVars, pc, cur, histVars>>

\* a slip: the tree is changed before the record is logged
PutLogsAfterInsert(key, val) ==
    /\ logs < MaxLogs
    /\ logs' = logs + 1
    /\ pc' = "write"
    /\ cur' = [key |-> key, val |-> val]
    /\ SetTree(insert(T, HashStringToInt(key), Ref(val)))
    /\ UNCHANGED <<wal, walVars, ret>>
    /\ UNCHANGED <<acked, aborted, logged, faults, opens, ckpt>>

\* KDB.Put entering WAL.Log
PutLogs(key, val) ==
    /\ logs < MaxLogs
    /\ logs' = logs + 1
    /\ pc' = "write"
    /\ cur' = [key |-> key, val |-> val]
    /\ UNCHANGED <<treeVars, wal, walVars, ret>>
    /\ UNCHANGED <<acked, aborted, logged, faults, opens, ckpt>>

\* the Put calls that returned true, with one more
Ack(key, val) ==
    acked \cup {[key |-> key, value |-> val,
                 nth |-> 1 + Cardinality({a \in acked :
                            HashStringToInt(a.key) = HashStringToInt(key)})]}

\* KDB.Put on a store with no WAL, the key not being a duplicate
PutInserts(key, val) ==
    /\ SetTree(insert(T, HashStringToInt(key), Ref(val)))
    /\ ret' = Returned("Put", TRUE, val)
    /\ acked' = Ack(key, val)
    /\ ckpt' = [ckpt EXCEPT !.keys = @ \cup {key}]
    /\ UNCHANGED <<wal, walVars, pc, cur>>
    /\ UNCHANGED <<aborted, logged, faults, logs, opens>>

\* KDB.Put up to the call of WAL.Log; the whole of it when the key is a
\* duplicate or no WAL is attached
PutCall(key, val) ==
    /\ pc = "idle"
    /\ IF checkIsDuplicateKey(T, key) THEN PutRejects(key, val)
       ELSE IF wal THEN PutLogs(key, val)
       ELSE PutInserts(key, val)

\* a slip: the error of Log is not looked at, the key is inserted all the same
PutAbortsStored ==
    /\ pc' = "idle"
    /\ cur' = NoCall
    /\ ret' = Returned("Put", FALSE, cur.val)
    /\ aborted' = aborted \cup {cur.key}
    /\ SetTree(insert(T, HashStringToInt(cur.key), Ref(cur.val)))
    /\ UNCHANGED <<wal, fileOpen, acked, logged, logs, opens, ckpt>>

\* Put returns (false, val) because Log returned an error
PutAborts ==
    /\ pc' = "idle"
    /\ cur' = NoCall
    /\ ret' = Returned("Put", FALSE, cur.val)
    /\ aborted' = aborted \cup {cur.key}
    /\ UNCHANGED <<treeVars, wal, fileOpen, acked, logged, logs, opens, ckpt>>

\* WAL.Log up to the end of w.file.Write. A Write on a closed handle writes
\* nothing; a Write that fails on an open one has written `part` of the record.
LogWrite ==
    /\ pc = "write"
    /\ walSeq' = walSeq + 1
    /\ \/ /\ fileOpen
          /\ file' = Append(file, Chunk(walSeq + 1, "PUT", cur.key, cur.val, "full"))
          /\ pc' = "sync"
          /\ UNCHANGED <<treeVars, wal, fileOpen, cur, ret, histVars>>
       \/ /\ ~fileOpen
          /\ file' = file
          /\ faults' = faults
          /\ PutAborts
       \/ /\ fileOpen
          /\ faults < MaxFaults
          /\ faults' = faults + 1
          /\ \E part \in FaultParts(cur.val) :
                file' = IF part = "none" THEN file
                        ELSE Append(file, Chunk(walSeq + 1, "PUT", cur.key, cur.val, part))
          /\ PutAborts

\* the record the Log in progress has written
CurRecord ==
    [Seq |-> walSeq, Operation |-> "PUT", Key |-> cur.key, Value |-> cur.val]

\* a slip: the error of w.file.Sync is dropped
LogSyncUnchecked ==
    /\ pc = "sync"
    /\ \/ /\ pc' = "apply"
          /\ logged' = logged \cup {CurRecord}
          /\ ckpt' = [ckpt EXCEPT !.logged = @ + 1]
          /\ UNCHANGED <<treeVars, wal, walVars, cur, ret>>
          /\ UNCHANGED <<acked, aborted, faults, logs, opens>>
       \/ /\ faults < MaxFaults
          /\ faults' = faults + 1
          /\ pc' = "apply"
          /\ UNCHANGED <<treeVars, wal, walVars, cur, ret>>
          /\ UNCHANGED <<acked, aborted, logged, logs, opens, ckpt>>

\* WAL.Log from w.file.Sync to its return
LogSync ==
    /\ pc = "sync"
    /\ \/ /\ pc' = "apply"
          /\ logged' = logged \cup {CurRecord}
          /\ ckpt' = [ckpt EXCEPT !.logged = @ + 1]
          /\ UNCHANGED <<treeVars, wal, walVars, cur, ret>>
          /\ UNCHANGED <<acked, aborted, faults, logs, opens>>
       \/ /\ faults < MaxFaults
          /\ faults' = faults + 1
          /\ UNCHANGED <<file, walSeq>>
          /\ PutAborts

\* KDB.Put after Log returned nil
PutApply ==
    /\ pc = "apply"
    /\ SetTree(insert(T, HashStringToInt(cur.key), Ref(cur.val)))
    /\ pc' = "idle"
    /\ cur' = NoCall
    /\ ret' = Returned("Put", TRUE, cur.val)
    /\ acked' = Ack(cur.key, cur.val)
    /\ ckpt' = [ckpt EXCEPT !.keys = @ \cup {cur.key}]
    /\ UNCHANGED <<wal, walVars, aborted, logged, faults, logs, opens>>

\* KDB.Close: os.File.Close returns an error on a handle that is closed
Close ==
    /\ pc = "idle"
    /\ wal
    /\ fileOpen' = FALSE
    /\ ret' = Returned("Close", fileOpen, "")
    /\ UNCHANGED <<treeVars, wal, file, walSeq, pc, cur, histVars>>

\* newKDBWithWAL on the path of the store that was closed. When Recover
\* returns an error the WAL is closed again and no store is returned.
Reopen ==
    /\ pc \in {"idle", "nodb"}
    /\ wal
    /\ ~fileOpen
    /\ opens < MaxOpens
    /\ opens' = opens + 1
    /\ IF RecoverFails(file)
       THEN /\ fileOpen' = FALSE
            /\ pc' = "nodb"
            /\ SetStore(NewStore(file))
            /\ ret' = Returned("Open", FALSE, "")
       ELSE /\ fileOpen' = TRUE
            /\ pc' = "idle"
            /\ SetStore(recoverFromWAL(NewStore(file)))
            /\ ret' = Returned("Open", TRUE, "")
    /\ UNCHANGED <<cur, acked, aborted, logged, faults, logs, ckpt>>

\* a slip: Checkpoint empties the tree with the file
CheckpointClears ==
    /\ pc = "idle"
    /\ wal
    /\ \/ /\ ~fileOpen
          /\ ret' = Returned("Checkpoint", FALSE, "")
          /\ UNCHANGED <<treeVars, wal, walVars, pc, cur, histVars>>
       \/ /\ fileOpen
          /\ file' = <<>>
          /\ walSeq' = 0
          /\ SetTree(EmptyTree)
          /\ ckpt' = [done |-> TRUE, keys |-> {}, logged |-> 0]
          /\ ret' = Returned("Checkpoint", TRUE, "")
          /\ UNCHANGED <<wal, fileOpen, pc, cur>>
          /\ UNCHANGED <<acked, aborted, logged, faults, logs, opens>>
       \/ /\ fileOpen
          /\ faults < MaxFaults
          /\ faults' = faults + 1
          /\ fileOpen' = FALSE
          /\ ret' = Returned("Checkpoint", FALSE, "")
          /\ UNCHANGED <<treeVars, wal, file, walSeq, pc, cur>>
          /\ UNCHANGED <<acked, aborted, logged, logs, opens, ckpt>>

\* KDB.Checkpoint, which is WAL.Truncate: w.file.Close() returns an error on
\* a handle that is closed; when os.OpenFile fails after it the handle stays
\* closed and the file and w.seq stay as they were.
Checkpoint ==
    /\ pc = "idle"
    /\ wal
    /\ \/ /\ ~fileOpen
          /\ ret' = Returned("Checkpoint", FALSE, "")
          /\ UNCHANGED <<treeVars, wal, walVars, pc, cur, histVars>>
       \/ /\ fileOpen
          /\ file' = <<>>
          /\ walSeq' = 0
          /\ ckpt' = [done |-> TRUE, keys |-> {}, logged |-> 0]
          /\ ret' = Returned("Checkpoint", TRUE, "")
          /\ UNCHANGED <<treeVars, wal, fileOpen, pc, cur>>
          /\ UNCHANGED <<acked, aborted, logged, faults, logs, opens>>
       \/ /\ fileOpen
          /\ faults < MaxFaults
          /\ faults' = faults + 1
          /\ fileOpen' = FALSE
          /\ ret' = Returned("Checkpoint", FALSE, "")
          /\ UNCHANGED <<treeVars, wal, file, walSeq, pc, cur>>
          /\ UNCHANGED <<acked, aborted, logged, logs, opens, ckpt>>

-----------------------------------------------------------------------------
(* The specifications *)

InitCommon ==
    /\ head = NilNode
    /\ heap = <<>>
    /\ Size = 0
    /\ file = <<>>
    /\ walSeq = 0
    /\ pc = "idle"
    /\ cur = NoCall
    /\ acked = {}
    /\ aborted = {}
    /\ logged = {}
    /\ faults = 0
    /\ logs = 0
    /\ opens = 0
    /\ ckpt = [done |-> FALSE, keys |-> {}, logged |-> 0]

\* after newKDBWithWAL on a path where no file exists
Init ==
    /\ InitCommon
    /\ wal = TRUE
    /\ fileOpen = TRUE
    /\ ret = Returned("Open", TRUE, "")

Next ==
    \/ \E key \in WalKeys, val \in Values : PutCall(key, val)
    \/ LogWrite
    \/ LogSync
    \/ PutApply
    \/ Close
    \/ Reopen

Spec == Init /\ [][Next]_vars

\* after newKDB
InitMem ==
    /\ InitCommon
    /\ wal = FALSE
    /\ fileOpen = FALSE
    /\ ret = Returned("New", TRUE, "")

NextMem ==
    \E key \in MemKeys, val \in Values :
        /\ Size < MaxSize
        /\ PutCall(key, val)

SpecMem == InitMem /\ [][NextMem]_vars

\* KDB.Close when db.wal is nil
CloseNoWAL ==
    /\ pc = "idle"
    /\ ~wal
    /\ ret' = Returned("Close", TRUE, "")
    /\ UNCHANGED <<treeVars, wal, walVars, pc, cur, histVars>>

\* KDB.Checkpoint when db.wal is nil
CheckpointNoWAL ==
    /\ pc = "idle"
    /\ ~wal
    /\ ret' = Returned("Checkpoint", TRUE, "")
    /\ UNCHANGED <<treeVars, wal, walVars, pc, cur, histVars>>

\* the in-memory store whose callers also call Close and Checkpoint
NextNoWAL ==
    \/ NextMem
    \/ CloseNoWAL
    \/ CheckpointNoWAL

SpecNoWAL == InitMem /\ [][NextNoWAL]_vars

\* callers that put every key once
NextTree ==
    \E key \in TreeKeys :
        /\ \A a \in acked : a.key # key
        /\ PutCall(key, "v1")

SpecTree == InitMem /\ [][NextTree]_vars

\* the WAL-backed store whose callers also call Checkpoint, and put values
\* longer than the largest token of the scanner
NextCkpt ==
    \/ \E key \in WalKeys, val \in CkptValues : PutCall(key, val)
    \/ LogWrite
    \/ LogSync
    \/ PutApply
    \/ Close
    \/ Reopen
    \/ Checkpoint

SpecCkpt == Init /\ [][NextCkpt]_vars

\* the WAL files with up to MaxRecords well-formed records, numbered in file
\* order, that another writer of the format has left
ReplayFiles ==
    UNION {{[i \in 1..n |-> Chunk(i, r[i][1], r[i][2], "v1", "full")] :
                r \in [1..n -> ReplayOps \X WalKeys]} : n \in 0..MaxRecords}

\* before newKDBWithWAL on the path of one of those files
InitReplay ==
    /\ head = NilNode
    /\ heap = <<>>
    /\ Size = 0
    /\ wal = TRUE
    /\ file \in ReplayFiles
    /\ fileOpen = FALSE
    /\ walSeq = 0
    /\ pc = "idle"
    /\ cur = NoCall
    /\ ret = Returned("Close", TRUE, "")
    /\ acked = {}
    /\ aborted = {}
    /\ logged = {}
    /\ faults = 0
    /\ logs = 0
    /\ opens = 0
    /\ ckpt = [done |-> FALSE, keys |-> {}, logged |-> 0]

\* the store is opened on the file
SpecReplay == InitReplay /\ [][Reopen]_vars

\* a slip: Get counts itself in w.seq
GetCallCounted(key) ==
    /\ pc = "idle"
    /\ ret' = Returned("Get", Get(key).found, Get(key).value)
    /\ walSeq' = walSeq + 1
    /\ UNCHANGED <<treeVars, wal, file, fileOpen, pc, cur, histVars>>

\* KDB.Get, which returns (value, found)
GetCall(key) ==
    /\ pc = "idle"
    /\ ret' = Returned("Get", Get(key).found, Get(key).value)
    /\ UNCHANGED <<treeVars, wal, walVars, pc, cur, histVars>>

\* the WAL-backed store whose callers also call Get, and put one value
NextGet ==
    \/ \E key \in WalKeys : PutCall(key, "v1")
    \/ \E key \in WalKeys : GetCall(key)
    \/ LogWrite
    \/ LogSync
    \/ PutApply
    \/ Close
    \/ Reopen

SpecGet == Init /\ [][NextGet]_vars

\* the goroutines that call Put on one store
Threads == {"t1", "t2"}

\* each of them puts its own value
ThreadValue(t) == IF t = "t1" THEN "v1" ELSE "v2"

\* the goroutines that hold w.mu: those between the Lock of WAL.Log and its
\* deferred Unlock
Holders == {t \in Threads : pc[t] \in {"write", "rest", "sync"}}

\* after newKDBWithWAL on a path where no file exists, with the goroutines
\* about to call Put: pc, cur and ret are kept for each of them
InitConc ==
    /\ head = NilNode
    /\ heap = <<>>
    /\ Size = 0
    /\ wal = TRUE
    /\ file = <<>>
    /\ fileOpen = TRUE
    /\ walSeq = 0
    /\ pc = [t \in Threads |-> "idle"]
    /\ cur = [t \in Threads |-> [key |-> <<>>, val |-> "", seq |-> 0]]
    /\ ret = [t \in Threads |-> Returned("Open", TRUE, "")]
    /\ acked = {}
    /\ aborted = {}
    /\ logged = {}
    /\ faults = 0
    /\ logs = 0
    /\ opens = 0
    /\ ckpt = [done |-> FALSE, keys |-> {}, logged |-> 0]

\* KDB.Put of the goroutine t up to the call of WAL.Log; the whole of it
\* when the key is a duplicate
PutCheck(t, key) ==
    /\ pc[t] = "idle"
    /\ IF checkIsDuplicateKey(T, key)
       THEN /\ ret' = [ret EXCEPT ![t] = Returned("Put", FALSE, ThreadValue(t))]
            /\ UNCHANGED <<treeVars, wal, walVars, pc, cur, histVars>>
       ELSE /\ logs < MaxConcLogs
            /\ logs' = logs + 1
            /\ pc' = [pc EXCEPT ![t] = "lock"]
            /\ cur' = [cur EXCEPT ![t] = [key |-> key, val |-> ThreadValue(t), seq |-> 0]]
            /\ UNCHANGED <<treeVars, wal, walVars, ret>>
            /\ UNCHANGED <<acked, aborted, logged, faults, opens, ckpt>>

\* a slip: Log does not take w.mu
LogNoLock(t) ==
    /\ pc[t] = "lock"
    /\ walSeq' = walSeq + 1
    /\ cur' = [cur EXCEPT ![t].seq = walSeq + 1]
    /\ pc' = [pc EXCEPT ![t] = "write"]
    /\ UNCHANGED <<treeVars, wal, file, fileOpen, ret, histVars>>

\* WAL.Log of the goroutine t from w.mu.Lock() to the op it builds, which
\* holds the w.seq it has incremented
LogLock(t) ==
    /\ pc[t] = "lock"
    /\ Holders = {}
    /\ walSeq' = walSeq + 1
    /\ cur' = [cur EXCEPT ![t].seq = walSeq + 1]
    /\ pc' = [pc EXCEPT ![t] = "write"]
    /\ UNCHANGED <<treeVars, wal, file, fileOpen, ret, histVars>>

\* w.file.Write of the goroutine t: the bytes reach the file at once, or the
\* system takes a part of them first
LogWriteBy(t) ==
    /\ pc[t] = "write"
    /\ \/ /\ file' = Append(file, Chunk(cur[t].seq, "PUT", cur[t].key, cur[t].val, "full"))
          /\ pc' = [pc EXCEPT ![t] = "sync"]
       \/ /\ file' = Append(file, Chunk(cur[t].seq, "PUT", cur[t].key, cur[t].val, "prefix"))
          /\ pc' = [pc EXCEPT ![t] = "rest"]
    /\ UNCHANGED <<treeVars, wal, fileOpen, walSeq, cur, ret, histVars>>

\* the same Write goes on with the bytes that are left
LogWriteRest(t) ==
    /\ pc[t] = "rest"
    /\ file' = Append(file, Chunk(cur[t].seq, "PUT", cur[t].key, cur[t].val, "rest"))
    /\ pc' = [pc EXCEPT ![t] = "sync"]
    /\ UNCHANGED <<treeVars, wal, fileOpen, walSeq, cur, ret, histVars>>

\* w.file.Sync, the deferred w.mu.Unlock() and the return of nil to Put
LogUnlock(t) ==
    /\ pc[t] = "sync"
    /\ pc' = [pc EXCEPT ![t] = "insert"]
    /\ logged' = logged \cup {[Seq |-> cur[t].seq, Operation |-> "PUT",
                               Key |-> cur[t].key, Value |-> cur[t].val]}
    /\ ckpt' = [ckpt EXCEPT !.logged = @ + 1]
    /\ UNCHANGED <<treeVars, wal, walVars, cur, ret>>
    /\ UNCHANGED <<acked, aborted, faults, logs, opens>>

\* a slip: Put looks for the key again before it inserts
PutInsertRechecks(t) ==
    /\ pc[t] = "insert"
    /\ pc' = [pc EXCEPT ![t] = "idle"]
    /\ IF checkIsDuplicateKey(T, cur[t].key)
       THEN /\ ret' = [ret EXCEPT ![t] = Returned("Put", FALSE, cur[t].val)]
            /\ UNCHANGED <<treeVars, acked, ckpt>>
       ELSE /\ SetTree(insert(T, HashStringToInt(cur[t].key), Ref(cur[t].val)))
            /\ ret' = [ret EXCEPT ![t] = Returned("Put", TRUE, cur[t].val)]
            /\ acked' = Ack(cur[t].key, cur[t].val)
            /\ ckpt' = [ckpt EXCEPT !.keys = @ \cup {cur[t].key}]
    /\ UNCHANGED <<wal, walVars, cur, aborted, logged, faults, logs, opens>>

\* KDB.Put of the goroutine t after Log returned nil
PutInsertBy(t) ==
    /\ pc[t] = "insert"
    /\ pc' = [pc EXCEPT ![t] = "idle"]
    /\ SetTree(insert(T, HashStringToInt(cur[t].key), Ref(cur[t].val)))
    /\ ret' = [ret EXCEPT ![t] = Returned("Put", TRUE, cur[t].val)]
    /\ acked' = Ack(cur[t].key, cur[t].val)
    /\ ckpt' = [ckpt EXCEPT !.keys = @ \cup {cur[t].key}]
    /\ UNCHANGED <<wal, walVars, cur, aborted, logged, faults, logs, opens>>

\* goroutines that call Put on one WAL-backed store with no order among them;
\* each call of db.insert runs alone
NextConc ==
    \/ \E t \in Threads, key \in LogKeys : PutCheck(t, key)
    \/ \E t \in Threads : LogLock(t)
    \/ \E t \in Threads : LogWriteBy(t)
    \/ \E t \in Threads : LogWriteRest(t)
    \/ \E t \in Threads : LogUnlock(t)
    \/ \E t \in Threads : PutInsertBy(t)

SpecConc == InitConc /\ [][NextConc]_vars

\* a caller of the WAL alone calls w.Log("PUT", key, val)
LogCall(key, val) ==
    /\ pc = "idle"
    /\ logs < MaxWalLogs
    /\ logs' = logs + 1
    /\ pc' = "write"
    /\ cur' = [key |-> key, val |-> val]
    /\ UNCHANGED <<treeVars, wal, walVars, ret>>
    /\ UNCHANGED <<acked, aborted, logged, faults, opens, ckpt>>

\* w.Log returns nil to that caller
LogReturns ==
    /\ pc = "apply"
    /\ pc' = "idle"
    /\ cur' = NoCall
    /\ ret' = Returned("Log", TRUE, cur.val)
    /\ UNCHANGED <<treeVars, wal, walVars, histVars>>

\* NewWAL on the path of the WAL that was closed
NewWAL ==
    /\ pc = "idle"
    /\ ~fileOpen
    /\ opens < MaxOpens
    /\ opens' = opens + 1
    /\ fileOpen' = TRUE
    /\ walSeq' = getLastSequence(file)
    /\ ret' = Returned("NewWAL", TRUE, "")
    /\ UNCHANGED <<treeVars, wal, file, pc, cur>>
    /\ UNCHANGED <<acked, aborted, logged, faults, logs, ckpt>>

\* the WAL used alone: Log, Close, NewWAL and Truncate, which is all that
\* Checkpoint does. LogWrite and LogSync return the error of a failed Log to
\* the caller as they return it to Put.
NextWAL ==
    \/ \E key \in LogKeys, val \in LogValues : LogCall(key, val)
    \/ LogWrite
    \/ LogSync
    \/ LogReturns
    \/ Close
    \/ NewWAL
    \/ Checkpoint

\* after NewWAL on a path where no file exists
SpecWAL == Init /\ [][NextWAL]_vars

-----------------------------------------------------------------------------
(* What the claims speak of *)

Hash(key) == HashStringToInt(key)

\* the occupied key slots of a node, in slot order
KeysOf(node) ==
    SubSeq(<<node.key1, node.key2, node.key3>>, 1, node.size)

\* the four child slots of a node, in slot order
ChildrenOf(node) == <<node.cp1, node.cp2, node.cp3, node.cp4>>

\* cp1, key1, cp2, key2, cp3, key3, cp4, recursively, over the occupied key
\* slots and the child links that are not nil
RECURSIVE InOrder(_, _)
InOrder(h, n) ==
    IF n = NilNode THEN <<>>
    ELSE LET node == h[n] IN
         InOrder(h, node.cp1)
         \o (IF node.size >= 1 THEN <<node.key1>> ELSE <<>>)
         \o InOrder(h, node.cp2)
         \o (IF node.size >= 2 THEN <<node.key2>> ELSE <<>>)
         \o InOrder(h, node.cp3)
         \o (IF node.size >= 3 THEN <<node.key3>> ELSE <<>>)
         \o InOrder(h, node.cp4)

StrictlyIncreasing(seq) == \A i \in 1..(Len(seq) - 1) : seq[i] < seq[i + 1]

\* the keys stored in the subtree of the node at address n
SubtreeKeys(h, n) == {InOrder(h, n)[i] : i \in 1..Len(InOrder(h, n))}

RECURSIVE Height(_, _)
Height(h, n) ==
    IF n = NilNode THEN 0 ELSE 1 + Height(h, h[n].cp1)

\* every Put that returned true was the first one of its hash
DistinctPuts == \A a \in acked : a.nth = 1

\* the value of the first Put that returned true among those of the hash of key
FirstValue(key) ==
    (CHOOSE a \in acked : Hash(a.key) = Hash(key) /\ a.nth = 1).value

\* the addresses of the nodes of the subtree of the node at address n
RECURSIVE NodesOf(_, _)
NodesOf(h, n) ==
    IF n = NilNode THEN {}
    ELSE {n} \cup NodesOf(h, h[n].cp1) \cup NodesOf(h, h[n].cp2)
             \cup NodesOf(h, h[n].cp3) \cup NodesOf(h, h[n].cp4)

\* insertKey, descending from the node at address n with this key, comes to
\* an internal node whose chosen child link is nil
RECURSIVE MeetsNilChild(_, _, _)
MeetsNilChild(h, n, key) ==
    /\ ~isLeaf(h[n])
    /\ \/ childAt(h[n], childIdxOf(h[n], key)) = NilNode
       \/ /\ childAt(h[n], childIdxOf(h[n], key)) # NilNode
          /\ MeetsNilChild(h, childAt(h[n], childIdxOf(h[n], key)), key)


\* the depths of the leaves of the subtree of the node at address n, which
\* is at depth d
RECURSIVE LeafDepths(_, _, _)
LeafDepths(h, n, d) ==
    IF n = NilNode THEN {}
    ELSE IF isLeaf(h[n]) THEN {d}
    ELSE LeafDepths(h, h[n].cp1, d + 1) \cup LeafDepths(h, h[n].cp2, d + 1)
         \cup LeafDepths(h, h[n].cp3, d + 1) \cup LeafDepths(h, h[n].cp4, d + 1)

-----------------------------------------------------------------------------
(* The claims on the WAL-backed store, under Spec *)

\* C1 (as stated): after Close and newKDBWithWAL on the same path, Get(k)
\* returns (v, true) for every Put(k, v) that returned true, whatever writes
\* and syncs failed in between, when there was no Checkpoint.
C1_RoundTripDurability ==
    (ret.op = "Open" /\ opens > 0 /\ ~ckpt.done) =>
        \A a \in acked : Get(a.key) = [value |-> a.value, found |-> TRUE]

\* C2: on a WAL-backed store a step other than the replay changes the tree
\* only from the point of Put that follows a Log that returned nil, and at
\* that point the PUT record of the call is the last line of the file, whole
\* and terminated, under the sequence number Log assigned.
C2_LogBeforeApply ==
    [][(wal /\ treeVars' # treeVars /\ ret'.op # "Open") =>
          /\ pc = "apply"
          /\ CurRecord \in logged
          /\ file # <<>>
          /\ file[Len(file)] = Chunk(walSeq, "PUT", cur.key, cur.val, "full")
          /\ head' = insert(T, Hash(cur.key), Ref(cur.val)).head
          /\ heap' = insert(T, Hash(cur.key), Ref(cur.val)).heap]_vars

\* C2, witness: a Put on the WAL-backed store has logged its record and then
\* inserted its key.
C2_Witness ==
    /\ wal
    /\ pc = "idle"
    /\ ret = Returned("Put", TRUE, "v1")
    /\ Size = 1
    /\ Len(file) = 1
    /\ opens = 0

\* a write or a sync of the Log in progress fails in this step
LogFails ==
    /\ pc \in {"write", "sync"}
    /\ faults' = faults + 1 \/ (pc = "write" /\ ~fileOpen)

\* C3: when Log returns an error, Put returns (false, value) in the same
\* step with the tree and Size untouched, and no step of Put from its call
\* to the return of Log touches them either.
C3_LogErrorAborts ==
    [][/\ LogFails =>
            /\ pc' = "idle"
            /\ ret' = Returned("Put", FALSE, cur.val)
            /\ treeVars' = treeVars
       /\ (pc \in {"write", "sync"} \/ pc' = "write") => treeVars' = treeVars]_vars

\* C3, witness: a Put has returned false after the sync of its record failed,
\* on a store that holds a key.
C3_Witness ==
    /\ pc = "idle"
    /\ ret.op = "Put"
    /\ ~ret.ok
    /\ faults = 1
    /\ aborted # {}
    /\ Size = 1
    /\ Len(file) = 2
    /\ file[2].part = "full"

\* C4 (as stated): the key of a Put that returned false because Log failed,
\* and that no Put that returned true has stored, is not found by Get, also
\* after the store was closed and opened again.
C4_AbortedNeverStored ==
    \A key \in aborted :
        (\A a \in acked : Hash(a.key) # Hash(key)) => ~Get(key).found

\* C5 (as stated): every record for which Log returned nil is among those
\* Recover returns, as long as the file has not been truncated.
C5_LoggedIsRecovered ==
    ~ckpt.done => \A r \in logged : \E i \in 1..Len(Recover(file)) : Recover(file)[i] = r

\* C7: a Put rejected as a duplicate appends nothing to the WAL file, leaves
\* the sequence counter, the tree and Size as they were, does not call Log,
\* and returns (false, value).
C7_DuplicateLeavesAll ==
    [][\A key \in WalKeys, val \in Values :
          (PutCall(key, val) /\ checkIsDuplicateKey(T, key)) =>
              /\ file' = file
              /\ walSeq' = walSeq
              /\ fileOpen' = fileOpen
              /\ treeVars' = treeVars
              /\ pc' = "idle"
              /\ ret' = Returned("Put", FALSE, val)]_vars

\* C7, witness: a Put was rejected as a duplicate, with no failure of the log.
C7_Witness ==
    /\ pc = "idle"
    /\ ret = Returned("Put", FALSE, "v2")
    /\ faults = 0
    /\ fileOpen
    /\ aborted = {}
    /\ Size = 1
    /\ walSeq = 1

-----------------------------------------------------------------------------
(* The claims on the in-memory store, under SpecMem *)

\* C6 (as stated): once Put(k, v1) has returned (true, v1), no later Put of k
\* returns true, and Get(k) returns (v1, true) whatever Puts follow.
C6_FirstWriterWins ==
    \A a \in acked :
        /\ \A b \in acked : b.key = a.key => b = a
        /\ Get(a.key) = [value |-> a.value, found |-> TRUE]

\* C8 (as stated): Get(k) returns the value of the first Put of the hash of k
\* that happened, and ("", false) when there was none.
C8_FirstWriterMap ==
    \A key \in MemKeys :
        Get(key) = IF \E a \in acked : Hash(a.key) = Hash(key)
                   THEN [value |-> FirstValue(key), found |-> TRUE]
                   ELSE NotFound

-----------------------------------------------------------------------------
(* The claims on the tree, under SpecTree *)

\* C9: after Puts of distinct hashed keys that returned true, the in-order
\* traversal of the tree is strictly increasing and lists Size keys; the keys
\* of each node are strictly increasing, and every key under child i of a
\* node lies strictly between the node's keys i-1 and i.
C9_OrderingInvariant ==
    DistinctPuts =>
        /\ StrictlyIncreasing(InOrder(heap, head))
        /\ Len(InOrder(heap, head)) = Size
        /\ SubtreeKeys(heap, head) = {Hash(a.key) : a \in acked}
        /\ \A n \in NodesOf(heap, head) :
              /\ StrictlyIncreasing(KeysOf(heap[n]))
              /\ \A i \in 1..4 : \A k \in SubtreeKeys(heap, ChildrenOf(heap[n])[i]) :
                    /\ (i - 1 >= 1 /\ i - 1 <= heap[n].size) => KeysOf(heap[n])[i - 1] < k
                    /\ i <= heap[n].size => k < KeysOf(heap[n])[i]

\* C9, witness: twelve distinct keys are stored, under a root that took a
\* promoted key into each of its three slots.
C9_Witness ==
    /\ DistinctPuts
    /\ Size = NumKeys
    /\ ~isLeaf(heap[head])
    /\ heap[head].size = 3

\* C10: every node of the tree has one, two or three keys and is a leaf or
\* has children in exactly its first size+1 slots, and no key makes insertKey
\* come to a nil child under an internal node.
C10_NodeShape ==
    /\ \A n \in NodesOf(heap, head) :
          /\ heap[n].size \in {1, 2, 3}
          /\ \/ isLeaf(heap[n])
             \/ \A i \in 1..4 :
                   (ChildrenOf(heap[n])[i] # NilNode) <=> (i <= heap[n].size + 1)
    /\ head # NilNode => \A key \in TreeKeys : ~MeetsNilChild(heap, head, Hash(key))

\* C10, witness: an internal node with three keys was split, which left a
\* tree of three levels whose root has two internal children.
C10_Witness ==
    /\ Height(heap, head) = 3
    /\ heap[head].size = 1
    /\ ~isLeaf(heap[heap[head].cp1])
    /\ ~isLeaf(heap[heap[head].cp2])
    /\ heap[heap[head].cp2].size = 2

\* C11: all the leaves of the tree are at the same depth.
C11_Balance == Cardinality(LeafDepths(heap, head, 1)) <= 1

\* C11, witness: the twelve keys are stored in a tree whose leaves are all
\* on the third level.
C11_Witness ==
    /\ Size = NumKeys
    /\ LeafDepths(heap, head, 1) = {3}

\* C12: Size is the number of keys in the tree and the number of Puts that
\* returned true, and every insert, whatever splits it causes, adds one to it.
C12_SizeCountsKeys ==
    /\ [](/\ Size = Len(InOrder(heap, head))
          /\ Size = Cardinality(acked))
    /\ [][treeVars' # treeVars =>
              /\ Size' = Size + 1
              /\ Len(InOrder(heap', head')) = Len(InOrder(heap, head)) + 1]_vars

\* C12, witness: the tenth insert split a leaf and then the root, which had
\* three keys, and left ten keys under a new root.
C12_Witness ==
    /\ Size = 10
    /\ Height(heap, head) = 3
    /\ Len(InOrder(heap, head)) = 10

\* the records of the Log calls that returned nil on a WAL that was opened once
\* on a new file, in the order of the calls, which number them 1, 2, ...
LoggedInOrder ==
    [i \in 1..Cardinality(logged) |-> CHOOSE r \in logged : r.Seq = i]

\* C13 (as stated): after Log calls that all returned nil on a WAL opened on a
\* new file, Recover returns no error and exactly the records of those calls,
\* in call order, each with the operation, key, value and sequence number of
\* its call, whatever the value.
C13_LogRecoverRoundTrip ==
    (pc = "idle" /\ aborted = {} /\ faults = 0 /\ opens = 0 /\ ~ckpt.done)
        => /\ ~RecoverFails(file)
           /\ Recover(file) = LoggedInOrder

\* the sequence numbers of the well-formed records of the file f, in file order
WellFormedSeqs(f) ==
    [i \in 1..Len(recoverLines(Lines(f))) |-> recoverLines(Lines(f))[i].Seq]

\* C14 (as stated): the sequence numbers of the well-formed records of the
\* WAL file are strictly increasing in file order, whatever mix of Log, failed
\* Log, Close, NewWAL and Truncate made the file.
C14_SeqStrictlyIncreasing == StrictlyIncreasing(WellFormedSeqs(file))

\* the largest sequence number of the well-formed records of the file f, 0
\* when it has none
RECURSIVE MaxSeqFrom(_, _)
MaxSeqFrom(seqs, m) ==
    IF seqs = <<>> THEN m
    ELSE MaxSeqFrom(Tail(seqs), IF Head(seqs) > m THEN Head(seqs) ELSE m)

MaxSeq(f) == MaxSeqFrom(WellFormedSeqs(f), 0)

\* C15 (as stated): NewWAL succeeds whatever malformed lines the file holds,
\* and leaves the WAL so that the next sequence number assigned is one more
\* than the largest of the well-formed records of the file, 1 when it has none.
C15_NextSeqOnOpen ==
    [][opens' = opens + 1 => (fileOpen' /\ walSeq' + 1 = MaxSeq(file) + 1)]_vars

\* C16 (as stated): a Log that returns an error leaves w.seq as it was when
\* Log was called, so that on a WAL opened once on a new file, and not
\* truncated, w.seq is the number of Log calls that returned nil and the next
\* of them is assigned the number after the last.
C16_FailedLogKeepsSeq ==
    /\ [][LogFails => walSeq' = (IF pc = "write" THEN walSeq ELSE walSeq - 1)]_vars
    /\ []((pc = "idle" /\ opens = 0 /\ ~ckpt.done) => walSeq = Cardinality(logged))

\* C17 (as stated): a Checkpoint that succeeds leaves the WAL file empty, and
\* the first Log to return nil after it has written a record with sequence
\* number 1 that is the only record of the file.
C17_CheckpointResetsSeq ==
    [][/\ (pc = "idle" /\ pc' = "idle" /\ ret' = Returned("Checkpoint", TRUE, ""))
            => file' = <<>>
       /\ (ckpt.done /\ ckpt.logged = 0 /\ ckpt'.logged = 1)
            => /\ walSeq' = 1
               /\ file' = <<Chunk(1, "PUT", cur.key, cur.val, "full")>>]_vars

\* the hashes under which the tree stores the keys of the Puts that returned
\* true since the last Checkpoint
CommittedSinceCheckpoint == {Hash(key) : key \in ckpt.keys}

\* C18 (as stated): when the store is opened again after a Checkpoint and a
\* Close, the open succeeds and the store holds exactly the keys of the Puts
\* that returned true after the Checkpoint: Size counts them, Get finds them
\* and no other key, also not one stored before the Checkpoint and put again
\* after it.
C18_CheckpointDiscardsHistory ==
    (ret.op = "Open" /\ opens > 0 /\ ckpt.done)
        => /\ ret.ok
           /\ SubtreeKeys(heap, head) = CommittedSinceCheckpoint
           /\ Size = Cardinality(ckpt.keys)
           /\ \A key \in WalKeys :
                Get(key).found <=> Hash(key) \in CommittedSinceCheckpoint

\* C19 (as stated): opening a store on a WAL file that holds well-formed PUT
\* lines mixed with lines that were cut short or are corrupt succeeds, and
\* the tree and Size it starts with are those of putting exactly the
\* well-formed records, in file order, into an empty store.
C19_RecoverySkipsMalformed ==
    [][opens' = opens + 1 =>
            /\ ret' = Returned("Open", TRUE, "")
            /\ SetTree(replay(EmptyTree, recoverLines(Lines(file))))]_vars

\* C20 (as stated): the open of a store on a path where no file exists yet
\* returns no error, an empty tree and Size 0, and the first Put on it that
\* returns true has been logged with sequence number 1.
C20_NewPathOpen ==
    /\ ret = Returned("Open", TRUE, "") /\ head = NilNode /\ Size = 0
    /\ [][(opens = 0 /\ acked = {} /\ acked' # {}) =>
            /\ walSeq = 1
            /\ CurRecord \in logged
            /\ Chunk(1, "PUT", cur.key, cur.val, "full") \in {file[i] : i \in 1..Len(file)}]_vars

\* C21: an open that replays the WAL leaves the file as it was and w.seq as
\* NewWAL computed it, with the WAL attached and its handle open, and the next
\* Put that returns true has appended its record to the file.
C21_ReplayDoesNotRelog ==
    [][/\ (opens' = opens + 1 /\ ret'.ok)
            => /\ file' = file
               /\ walSeq' = getLastSequence(file)
               /\ wal' /\ fileOpen'
       /\ (opens > 0 /\ acked' # acked)
            => /\ Len(file') = Len(file)
               /\ file[Len(file)] = Chunk(walSeq, "PUT", cur.key, cur.val, "full")]_vars

\* C21, witness: a Put has returned true on a store that was opened again and
\* replayed a record; the file holds the record replayed and the record of
\* that Put.
C21_Witness ==
    /\ opens = 1
    /\ ret.op = "Put" /\ ret.ok
    /\ Size = 2
    /\ WellFormedSeqs(file) = <<1, 2>>

\* the PUT operations among ops, in order
RECURSIVE PutsOf(_)
PutsOf(ops) ==
    IF ops = <<>> THEN <<>>
    ELSE (IF Head(ops).Operation = "PUT" THEN <<Head(ops)>> ELSE <<>>)
         \o PutsOf(Tail(ops))

\* C22: the open of a store on a file whose records are not all PUT succeeds,
\* and the tree and Size it starts with are those the PUT records alone give,
\* in their order: a record of another operation changes nothing and the
\* records after it are applied.
C22_NonPutIgnored ==
    [][opens' = opens + 1 =>
            /\ ret' = Returned("Open", TRUE, "")
            /\ SetTree(replay(EmptyTree, PutsOf(Recover(file))))]_vars

\* C22, witness: a store opened on PUT "a", DELETE "a", PUT "aa" holds two keys.
C22_Witness ==
    /\ opens = 1
    /\ Len(file) = 3
    /\ file[1].Operation = "PUT" /\ file[1].Key = <<97>>
    /\ file[2].Operation = "DELETE" /\ file[2].Key = <<97>>
    /\ file[3].Operation = "PUT" /\ file[3].Key = <<97, 97>>
    /\ Size = 2
    /\ Get(<<97>>).found /\ Get(<<97, 97>>).found

\* the key slots in use of a node, each with its value
EntriesOf(node) ==
    {<<<<node.key1, node.key2, node.key3>>[i], <<node.rp1, node.rp2, node.rp3>>[i]>> :
        i \in 1..node.size}

\* s is what the claim says of the split of the leaf at address n of the heap
\* h on the arrival of key with val: the leaf keeps the smallest of the four
\* keys alone, a new leaf holds the two largest, the second smallest is
\* promoted, each key has kept its value, and no other node has changed
IsLeafSplit(s, h, n, key, val) ==
    /\ s.res.promoted
    /\ s.res.newRight = Len(h) + 1
    /\ Len(s.heap) = Len(h) + 1
    /\ \A m \in 1..Len(h) : m # n => s.heap[m] = h[m]
    /\ isLeaf(s.heap[n]) /\ s.heap[n].size = 1
    /\ isLeaf(s.heap[s.res.newRight]) /\ s.heap[s.res.newRight].size = 2
    /\ StrictlyIncreasing(KeysOf(s.heap[n]) \o <<s.res.promotedKey>>
                          \o KeysOf(s.heap[s.res.newRight]))
    /\ EntriesOf(s.heap[n]) \cup {<<s.res.promotedKey, s.res.promotedVal>>}
            \cup EntriesOf(s.heap[s.res.newRight])
       = EntriesOf(h[n]) \cup {<<key, val>>}

\* the tree after 1, 2, 3, 4 were inserted into an empty one
Tree1234 ==
    insert(insert(insert(insert(EmptyTree, 1, Ref("v1")), 2, Ref("v2")),
                  3, Ref("v1")), 4, Ref("v2"))

\* t has a root that holds key alone over the leaves with the keys left and right
IsRootOverTwo(t, left, key, right) ==
    /\ KeysOf(t.heap[t.head]) = <<key>>
    /\ ChildrenOf(t.heap[t.head])[3] = NilNode /\ ChildrenOf(t.heap[t.head])[4] = NilNode
    /\ isLeaf(t.heap[t.heap[t.head].cp1]) /\ KeysOf(t.heap[t.heap[t.head].cp1]) = left
    /\ isLeaf(t.heap[t.heap[t.head].cp2]) /\ KeysOf(t.heap[t.heap[t.head].cp2]) = right
    /\ Height(t.heap, t.head) = 2
    /\ t.Size = 4

\* C23: splitNode on any full leaf of the tree with keys a < b < c and a
\* fourth key leaves the smallest of the four alone in the leaf, the two
\* largest in a new right sibling, and promotes the second smallest with its
\* value; 1, 2, 3, 4 inserted into an empty tree give a root with key 2 over
\* the leaves {1} and {3, 4}, height 2 and Size 4.
C23_LeafSplit ==
    /\ \A n \in 1..Len(heap) :
          (isLeaf(heap[n]) /\ heap[n].size = 3 /\ StrictlyIncreasing(KeysOf(heap[n])))
          => \A key \in MemKeys, val \in Values :
                (\A i \in 1..3 : KeysOf(heap[n])[i] # Hash(key))
                => IsLeafSplit(splitNode(heap, n, Hash(key), Ref(val), NilNode, <<>>),
                               heap, n, Hash(key), Ref(val))
    /\ IsRootOverTwo(Tree1234, <<1>>, 2, <<3, 4>>)

\* C23, witness: a store that took "a", "b", "c" and then "d", whose Put split
\* the root leaf: "b" is alone in the root over the leaves {"a"} and {"c", "d"}.
C23_Witness ==
    /\ Size = 4
    /\ \E a \in acked : a.key = KeyPool[4] /\ ret = Returned("Put", TRUE, a.value)
    /\ IsRootOverTwo(T, <<Hash(KeyPool[1])>>, Hash(KeyPool[2]),
                     <<Hash(KeyPool[3]), Hash(KeyPool[4])>>)

\* the number of nodes on the longest path from the node at address n down
\* to a leaf, 0 for no node
TreeHeight(h, n) ==
    IF n = NilNode THEN 0
    ELSE CHOOSE d \in LeafDepths(h, n, 1) : \A e \in LeafDepths(h, n, 1) : e <= d

\* the node at address n of the heap h was full and splitNode has split it
WasSplit(h, hAfter, n) == h[n].size = 3 /\ hAfter[n].size = 1

C25_InMemoryStore ==
    [][/\ \A key \in MemKeys, val \in Values :
            PutCall(key, val) =>
                /\ ret' = Returned("Put", Hash(key) \notin SubtreeKeys(heap, head), val)
                /\ pc' = "idle"
                /\ ~ret'.ok => treeVars' = treeVars
       /\ ret'.op \in {"Close", "Checkpoint"} => (ret'.ok /\ treeVars' = treeVars)]_vars

\* C26: with goroutines calling Log at the same time, the calls that returned
\* nil have as many distinct sequence numbers as there are calls, every line
\* of the file is one whole record, but for a last line that the holder of
\* the lock is still writing, and the records stand in the file in the order
\* of their sequence numbers.
C26_LogAtomic ==
    /\ Cardinality({r.Seq : r \in logged}) = ckpt.logged
    /\ \A t \in Threads, u \in Threads :
          (t # u /\ pc[t] \notin {"idle", "lock"} /\ pc[u] \notin {"idle", "lock"})
          => cur[t].seq # cur[u].seq
    /\ \A i \in 1..Len(Lines(file)) :
          \/ Unmarshals(Lines(file)[i])
          \/ /\ i = Len(Lines(file))
             /\ \E t \in Threads :
                   /\ pc[t] = "rest"
                   /\ Lines(file)[i] =
                        <<Chunk(cur[t].seq, "PUT", cur[t].key, cur[t].val, "prefix")>>
    /\ StrictlyIncreasing(WellFormedSeqs(file))

\* C26, witness: a goroutine waits for the lock while the other, which holds
\* it, has written a part of the second record of the file.
C26_Witness ==
    /\ \E t \in Threads, u \in Threads : pc[t] = "lock" /\ pc[u] = "rest"
    /\ Len(file) = 2
    /\ WellFormedSeqs(file) = <<1>>

\* how many entries of the tree have the hash of key
EntriesWith(key) ==
    Cardinality({i \in 1..Len(InOrder(heap, head)) : InOrder(heap, head)[i] = Hash(key)})

HoldsKey(h, n, key) == \E i \in 1..h[n].size : KeysOf(h[n])[i] = Hash(key)

\* C28 (as stated): on every tree and for every key, searchKey from the root
\* returns a node exactly when Get returns found, and that node holds the
\* hash of the key; on the empty tree neither finds anything.
C28_SearchAgreesWithGet ==
    \A key \in TreeKeys :
        /\ (searchKey(heap, head, key) # NilNode) <=> Get(key).found
        /\ searchKey(heap, head, key) # NilNode
              => HoldsKey(heap, searchKey(heap, head, key), key)
        /\ head = NilNode => (searchKey(heap, head, key) = NilNode /\ ~Get(key).found)

\* C29: a Get, whether it finds the key or not, leaves the tree, Size, the
\* WAL file, its handle and w.seq as they were.
C29_GetReadOnly ==
    [][(pc = "idle" /\ pc' = "idle" /\ ret'.op = "Get")
            => /\ treeVars' = treeVars
               /\ walVars' = walVars
               /\ wal' = wal]_vars

\* C29, witness: a Get has found a key on a store whose WAL holds a record,
\* and another has not.
C29_Witness ==
    /\ ret.op = "Get" /\ ret.ok /\ ret.value = "v1"
    /\ Size = 1
    /\ WellFormedSeqs(file) = <<1>>
    /\ \E key \in WalKeys : ~Get(key).found

\* C30: a Checkpoint that succeeds leaves the tree and Size as they were, and
\* with them what Get returns for every key; the WAL stays attached with an
\* open handle, and only the file and w.seq change.
C30_CheckpointKeepsMemory ==
    [][(pc = "idle" /\ pc' = "idle" /\ ret' = Returned("Checkpoint", TRUE, ""))
            => /\ treeVars' = treeVars
               /\ \A key \in WalKeys : Get(key)' = Get(key)
               /\ wal' = wal /\ fileOpen' = fileOpen
               /\ file' = <<>> /\ walSeq' = 0]_vars

\* C30, witness: after a Checkpoint that succeeded the store still holds two
\* keys and Get finds them, and the WAL file is empty.
C30_Witness ==
    /\ ret = Returned("Checkpoint", TRUE, "")
    /\ pc = "idle"
    /\ Size = 2
    /\ Cardinality({key \in WalKeys : Get(key).found}) >= 2
    /\ file = <<>> /\ walSeq = 0

\* the three key slots of a node with their values, in slot order
SlotsOf(node) ==
    <<<<node.key1, node.rp1>>, <<node.key2, node.rp2>>, <<node.key3, node.rp3>>>>

\* after is node with the key and val promoted by its child at index i
\* (0-based) taken in as the claim says: they are the separator at position i
\* and newRight the child at position i + 1, what stood at or after these
\* positions has moved right by one, and the other slots are as in node
IsPromotedInto(after, node, key, val, newRight, i) ==
    /\ after.size = node.size + 1
    /\ \A j \in 1..3 :
          SlotsOf(after)[j] =
              IF j - 1 < i THEN SlotsOf(node)[j]
              ELSE IF j - 1 = i THEN <<key, val>>
              ELSE IF j <= after.size THEN SlotsOf(node)[j - 1]
              ELSE SlotsOf(node)[j]
    /\ \A j \in 1..4 :
          ChildrenOf(after)[j] =
              IF j - 1 <= i THEN ChildrenOf(node)[j]
              ELSE IF j - 1 = i + 1 THEN newRight
              ELSE IF j <= after.size + 1 THEN ChildrenOf(node)[j - 1]
              ELSE ChildrenOf(node)[j]

\* C31: for every internal node of the tree with fewer than three keys and
\* each of its children, insertPromotedKey with the index of that child puts
\* the promoted key and value and the new sibling where the claim says.
C31_PromotionWithRoom ==
    \A n \in NodesOf(heap, head) :
        (~isLeaf(heap[n]) /\ heap[n].size < 3) =>
            \A i \in 0..heap[n].size :
                IsPromotedInto(
                    insertPromotedKey(heap[n], 7, Ref("p"), Len(heap) + 1, i),
                    heap[n], 7, Ref("p"), Len(heap) + 1, i)

\* C31, witness: the root has taken in a third key promoted by a child into
\* the two it had, and has four children.
C31_Witness ==
    /\ Height(heap, head) = 2
    /\ heap[head].size = 3
    /\ \A j \in 1..4 : ChildrenOf(heap[head])[j] # NilNode

\* the four children of node and newChild, which stands right after the child
\* at index i (0-based)
FiveChildren(node, newChild, i) ==
    SubSeq(ChildrenOf(node), 1, i + 1) \o <<newChild>>
        \o SubSeq(ChildrenOf(node), i + 2, 4)

\* s is what the claim says of the split of the full internal node at address
\* n of the heap h when its child at index i has promoted key with val and
\* handed up newChild: the node keeps the smallest key and the first two of
\* the five children, a new right node holds the two largest keys and the
\* last three children, the second smallest key is promoted with its value,
\* and no other node has changed
IsInternalSplit(s, h, n, key, val, newChild, i) ==
    /\ s.res.promoted
    /\ s.res.newRight = Len(h) + 1
    /\ Len(s.heap) = Len(h) + 1
    /\ \A m \in 1..Len(h) : m # n => s.heap[m] = h[m]
    /\ s.heap[n].size = 1 /\ s.heap[s.res.newRight].size = 2
    /\ StrictlyIncreasing(KeysOf(s.heap[n]) \o <<s.res.promotedKey>>
                          \o KeysOf(s.heap[s.res.newRight]))
    /\ EntriesOf(s.heap[n]) \cup {<<s.res.promotedKey, s.res.promotedVal>>}
            \cup EntriesOf(s.heap[s.res.newRight])
       = EntriesOf(h[n]) \cup {<<key, val>>}
    /\ ChildrenOf(s.heap[n]) =
           SubSeq(FiveChildren(h[n], newChild, i), 1, 2) \o <<NilNode, NilNode>>
    /\ ChildrenOf(s.heap[s.res.newRight]) =
           SubSeq(FiveChildren(h[n], newChild, i), 3, 5) \o <<NilNode>>
    /\ Cardinality({FiveChildren(h[n], newChild, i)[j] : j \in 1..5} \ {NilNode}) = 5

\* the heap with one more node, a leaf holding key, as the split of a child
\* leaves it before the parent takes the promoted key
WithNewChild(h, key) == Append(h, LeafNode(key, Ref("p")))

\* C32: for every full internal node of the tree and every key that is not
\* in it, splitNode with the new sibling handed up by the child the key
\* descends into places the sibling right after that child among the five
\* children, leaves the smallest key and the first two children in the node,
\* gives the two largest keys and the last three children to a new right
\* node, and promotes the second smallest key.
C32_InternalSplit ==
    \A n \in NodesOf(heap, head) :
        (~isLeaf(heap[n]) /\ heap[n].size = 3) =>
            \A key \in TreeKeys :
                (\A j \in 1..3 : KeysOf(heap[n])[j] # Hash(key))
                => IsInternalSplit(
                       splitNode(WithNewChild(heap, Hash(key)), n, Hash(key),
                                 Ref("q"), Len(heap) + 1,
                                 <<childIdxOf(heap[n], Hash(key))>>),
                       WithNewChild(heap, Hash(key)), n, Hash(key), Ref("q"),
                       Len(heap) + 1, childIdxOf(heap[n], Hash(key)))

\* C32, witness: a full internal root has split: the tree has three levels,
\* its root holds the promoted key alone, the old root below it has one key
\* and two children and the new right node two keys and three children.
C32_Witness ==
    /\ Height(heap, head) = 3
    /\ heap[head].size = 1
    /\ heap[heap[head].cp1].size = 1
    /\ heap[heap[head].cp1].cp2 # NilNode /\ heap[heap[head].cp1].cp3 = NilNode
    /\ heap[heap[head].cp2].size = 2
    /\ heap[heap[head].cp2].cp3 # NilNode /\ heap[heap[head].cp2].cp4 = NilNode

-----------------------------------------------------------------------------
(* HashStringToInt on 64 bits *)

\* "a" and U+1F600, a rune of four bytes in UTF-8
HashRunes == {97, 128512}

\* the loop of HashStringToInt is followed over the strings of up to
\* MaxHashLen runes: cur.key is the part of the key that was ranged over and
\* ret.value the value of hash
InitHash ==
    /\ InitCommon
    /\ wal = FALSE
    /\ fileOpen = FALSE
    /\ ret = Returned("Hash", TRUE, Word64(5381))

\* one turn of the loop, on the rune char
HashLoop(char) ==
    /\ Len(cur.key) < MaxHashLen
    /\ cur' = [cur EXCEPT !.key = Append(@, char)]
    /\ ret' = [ret EXCEPT !.value = hashStep(@, char)]
    /\ UNCHANGED <<treeVars, wal, walVars, pc, histVars>>

NextHash == \E char \in HashRunes : HashLoop(char)

SpecHash == InitHash /\ [][NextHash]_vars

\* the carry of w * 33 + c into word i
RECURSIVE MulCarry(_, _, _)
MulCarry(w, c, i) ==
    IF i = 1 THEN c
    ELSE (w[i - 1] * 33 + MulCarry(w, c, i - 1)) \div Base

\* w * 33 + c modulo 2^64
Times33Plus(w, c) == [i \in 1..4 |-> (w[i] * 33 + MulCarry(w, c, i)) % Base]

\* the fold h0 = 5381, h = h * 33 + code(c) over the runes of key, modulo 2^64
RECURSIVE Fold33(_)
Fold33(key) ==
    IF key = <<>> THEN Word64(5381)
    ELSE Times33Plus(Fold33(SubSeq(key, 1, Len(key) - 1)), key[Len(key)])

\* the words w are those of a negative int
IsNegative(w) == w[4] >= 2^15

\* C33: the value HashStringToInt has computed for a key is the fold
\* h0 = 5381, h = h * 33 + code(c) over its runes modulo 2^64, read as a
\* signed int; it is 5381 for the empty key, and for keys short enough for
\* the fold to stay below 2^31 it is the int the tree is keyed by.
C33_HashFold ==
    /\ ret.value = Fold33(cur.key)
    /\ cur.key = <<>> => ret.value = <<5381, 0, 0, 0>>
    /\ Len(cur.key) <= 2 => ret.value = Word64(HashStringToInt(cur.key))

\* C33, witness: a key of eleven runes or more, over which the fold has
\* passed 2^63 and wrapped to a negative int.
C33_Witness ==
    /\ ret.op = "Hash"
    /\ Len(cur.key) >= 11
    /\ IsNegative(ret.value)

\* C34: the PUT records Recover reads from the WAL file have keys of
\* different hashes, and the tree recovered from the file has one entry for
\* each of them.
C34_OnePutRecordPerHash ==
    /\ \A i, j \in 1..Len(PutsOf(Recover(file))) :
          i < j => Hash(PutsOf(Recover(file))[i].Key) # Hash(PutsOf(Recover(file))[j].Key)
    /\ recoverFromWAL(NewStore(file)).tree.Size = Len(PutsOf(Recover(file)))

-----------------------------------------------------------------------------
(* Keys whose hashes collide, in the in-memory store *)

\* "a", "b", "c", and "aa" and "b@", which have the same hash
AliasKeys == {<<97>>, <<98>>, <<99>>, <<97, 97>>, <<98, 64>>}

NextAlias ==
    \E key \in AliasKeys, val \in Values :
        /\ Size < MaxSize
        /\ PutCall(key, val)

SpecAlias == InitMem /\ [][NextAlias]_vars

\* a Put of another key with the hash of key has returned true
AliasCommitted(key) ==
    \E a \in acked : a.key # key /\ Hash(a.key) = Hash(key)

\* C35: once a Put of a key has returned true, Get of any other key with the
\* same hash returns the value of that Put with found = true, and a Put of
\* such a key returns (false, val) and changes neither the tree nor the WAL.
C35_CollisionsAlias ==
    /\ [](\A a \in acked, b \in AliasKeys :
            (b # a.key /\ Hash(b) = Hash(a.key) /\ a.nth = 1)
            => Get(b) = [value |-> a.value, found |-> TRUE])
    /\ [][\A key \in AliasKeys, val \in Values :
            (AliasCommitted(key) /\ PutCall(key, val))
            => /\ ret' = Returned("Put", FALSE, val)
               /\ UNCHANGED <<treeVars, file, walSeq, acked>>]_vars

\* C36: on a WAL-backed store whose WAL was closed, a Put that is not
\* rejected as a duplicate fails in Log and returns (false, value) with the
\* tree, Size and the file as they were; and as long as the WAL stays closed
\* no step changes the tree or what Get returns for any key.
C36_PutAfterClose ==
    [][/\ (pc = "write" /\ wal /\ ~fileOpen)
            => /\ pc' = "idle"
               /\ ret' = Returned("Put", FALSE, cur.val)
               /\ UNCHANGED <<treeVars, file>>
       /\ (wal /\ ~fileOpen')
            => /\ UNCHANGED treeVars
               /\ \A key \in WalKeys : Get(key)' = Get(key)]_vars

\* C36, witness: after a Put that was committed and a Close, a Put of another
\* key has returned (false, value) with no write fault: the first key is
\* still found and the second is not.
C36_Witness ==
    /\ wal /\ ~fileOpen /\ opens = 0 /\ faults = 0
    /\ pc = "idle"
    /\ ret.op = "Put" /\ ~ret.ok
    /\ Size = 1
    /\ \E a \in acked : Get(a.key) = [value |-> a.value, found |-> TRUE]
    /\ \E key \in aborted : ~Get(key).found

\* the addresses the child links of node hold
ChildSet(node) == {ChildrenOf(node)[i] : i \in 1..4} \ {NilNode}

\* the addresses reached from the node at address n by one to d child links
RECURSIVE ReachedBy(_, _, _)
ReachedBy(h, n, d) ==
    IF d = 0 THEN {}
    ELSE ChildSet(h[n]) \cup UNION {ReachedBy(h, c, d - 1) : c \in ChildSet(h[n])}

\* the child slots of the nodes of the tree that hold the address m
ParentSlots(m) ==
    {s \in NodesOf(heap, head) \X (1..4) : ChildrenOf(heap[s[1]])[s[2]] = m}

\* C37: the nodes reached from the root form a tree: no node is reached from
\* itself by child links, no child slot holds the root, and every other node
\* is held by exactly one child slot of exactly one node.
C37_IsTree ==
    /\ \A n \in 1..Len(heap) : n \notin ReachedBy(heap, n, Len(heap))
    /\ \A m \in NodesOf(heap, head) :
          Cardinality(ParentSlots(m)) = IF m = head THEN 0 ELSE 1

\* C37, witness: a tree of three levels and at least seven nodes, made by
\* splits of leaves, of an internal node and of the root.
C37_Witness ==
    /\ Height(heap, head) = 3
    /\ Cardinality(NodesOf(heap, head)) >= 7
    /\ Cardinality(NodesOf(heap, head)) = Len(heap)

\* C38: in every node of the tree the key slots past size hold key 0 and a
\* nil value; all the same a search for the hash 0, which no stored key has,
\* started at the root or at any node, finds no node (so a Put of such a key
\* is not a duplicate) and Get returns ("", false) for it; and whenever Get
\* finds a key, an occupied slot holds its hash with a value that is not nil.
C38_EmptySlotsNeverMatch ==
    /\ \A n \in NodesOf(heap, head) :
          /\ \A i \in 1..3 : i > heap[n].size => SlotsOf(heap[n])[i] = <<0, NilStr>>
          /\ searchKeyHash(heap, n, 0) = NilNode
          /\ GetFrom(heap, n, 0) = NotFound
    /\ searchKeyHash(heap, head, 0) = NilNode
    /\ GetFrom(heap, head, 0) = NotFound
    /\ \A key \in TreeKeys :
          Get(key).found =>
              \E n \in NodesOf(heap, head) : \E e \in EntriesOf(heap[n]) :
                  /\ e[1] = Hash(key)
                  /\ e[2] # NilStr
                  /\ Get(key).value = Deref(e[2])

\* C38, witness: the leaf a lookup of hash 0 ends in was the left node of a
\* split: it has one key, and its second and third slots were reset to key 0
\* and nil; a key stored in the tree is found.
C38_Witness ==
    /\ Height(heap, head) = 2
    /\ heap[heap[head].cp1].size = 1
    /\ SlotsOf(heap[heap[head].cp1])[2] = <<0, NilStr>>
    /\ SlotsOf(heap[heap[head].cp1])[3] = <<0, NilStr>>
    /\ \E key \in TreeKeys : Get(key).found

====
